---- MODULE Spec2Model ----
(***************************************************************************)
(* Cloud instance cost optimizer: the genetic search over instance-count   *)
(* vectors and the scaling decision of src/Stream.py and src/Streaml.py.   *)
(*                                                                         *)
(* The two scripts are two builds of the same engine.  `variant` says      *)
(* which one runs; the operators the scripts share verbatim (crossover,    *)
(* mutate, calculate_cost, the generation loop) are modelled once, the     *)
(* ones that differ (fitness, the tail of genetic_algorithm,               *)
(* scaling_analysis) once per script.                                      *)
(*                                                                         *)
(* Money is fixed-point: PriceScale units make one currency unit, so the   *)
(* 0.50 of a price is the integer 1 and the literal 5 of the code is       *)
(* 5 * PriceScale.  A fitness (a float in the code) is the exact rational  *)
(* num / den; raising ZeroDivisionError is err = TRUE.                     *)
(***************************************************************************)
EXTENDS Integers, Sequences, FiniteSets

VARIABLES
    variant,         \* "Stream" or "Streaml": the script that runs
    instances,       \* the catalog, load_instances()
    avg_utilization, \* the requirement, [vCPUs, memory_GiB]
    current_config,  \* the caller's configuration
    pop_size,        \* genetic_algorithm's pop_size
    population,      \* genetic_algorithm's population
    new_population,  \* genetic_algorithm's new_population
    generation,      \* number of completed rounds of the for loop
    best_config,     \* the max() of the final population
    optimal_config,  \* what genetic_algorithm returned: [none, config]
    result,          \* what scaling_analysis returned
    pc               \* "loop", "breed", "analyze", "done", "raised"

vars == <<variant, instances, avg_utilization, current_config, pop_size,
          population, new_population, generation, best_config,
          optimal_config, result, pc>>

(* ------------------------------ bounds -------------------------------- *)

\* the values of pop_size a run is started with (the code's default is 20):
\* 1 and 2 leave the while loop no round, 3 gives it one round a generation
PopSizes == {1, 2, 3}
\* the counts generate_solution draws (the code: 0..2 and 0..5)
InitCounts == {0, 1}
\* rounds of the for loop (the code's default is 100)
Generations == 2
\* a mutation that would take a count above CountCap is not taken
CountCap == 2

(* ---------------------------- constants ------------------------------- *)

\* integer units per currency unit
PriceScale == 2
\* population[:2]
EliteCount == 2
\* population[:10]
ParentPool == 10
\* current_cost - optimal_cost > 5
SavingsThreshold == 5
\* utilization_threshold = 80
utilization_threshold == 80

(* ------------------------------ catalog ------------------------------- *)

InstanceSpec(id, v, m, p) ==
    [instance_type |-> id, vCPUs |-> v, memory_GiB |-> m,
     on_demand_hourly_price_usd |-> p]

\* one small and one large type; prices 0.50 and 5.50
CatalogSmallBig ==
    << InstanceSpec("small", 1, 1, 1), InstanceSpec("big", 80, 80, 11) >>

\* two types of equal price 0.50, the second with twice the vCPUs
CatalogEqualPrice ==
    << InstanceSpec("t2", 1, 1, 1), InstanceSpec("t3", 2, 1, 1) >>

Requirement(v, m) == [vCPUs |-> v, memory_GiB |-> m]

\* the (catalog, requirement) pairs a run is started with
Scenarios ==
    { <<CatalogSmallBig, Requirement(0, 1)>>,
      <<CatalogSmallBig, Requirement(1, 1)>>,
      <<CatalogSmallBig, Requirement(80, 1)>>,
      <<CatalogEqualPrice, Requirement(1, 1)>> }

Ids(insts) == { insts[i].instance_type : i \in 1..Len(insts) }

\* next(i for i in instances if i["instance_type"] == instance)
Lookup(insts, instance) ==
    insts[CHOOSE i \in 1..Len(insts) :
            /\ insts[i].instance_type = instance
            /\ \A j \in 1..(i - 1) : insts[j].instance_type # instance]

\* sum of instance_data[field] * count over solution.items()
RECURSIVE SumOver(_, _, _, _)
SumOver(keys, solution, insts, field) ==
    IF keys = {} THEN 0
    ELSE LET k == CHOOSE x \in keys : TRUE
         IN  Lookup(insts, k)[field] * solution[k]
               + SumOver(keys \ {k}, solution, insts, field)

Total(solution, insts, field) == SumOver(DOMAIN solution, solution, insts, field)

(* ------------------------------ fitness ------------------------------- *)

FitZero == [err |-> FALSE, num |-> 0, den |-> 1]
FitRaise == [err |-> TRUE, num |-> 0, den |-> 1]

\* a < b, for two fitness values that did not raise
FitLess(a, b) == a.num * b.den < b.num * a.den

FitPositive(a) == ~a.err /\ a.num > 0

\* Shortfall with `and` for `or`
ShortfallBoth(solution, insts, required_vCPUs, required_memory_GiB) ==
    /\ Total(solution, insts, "vCPUs") < required_vCPUs
    /\ Total(solution, insts, "memory_GiB") < required_memory_GiB

\* does not cover the requirement
Shortfall(solution, insts, required_vCPUs, required_memory_GiB) ==
    \/ Total(solution, insts, "vCPUs") < required_vCPUs
    \/ Total(solution, insts, "memory_GiB") < required_memory_GiB

\* Streaml.py: (1 / total_cost) / (1 + resource_surplus)
Streaml_fitness(solution, insts, required_vCPUs, required_memory_GiB) ==
    LET total_vCPUs == Total(solution, insts, "vCPUs")
        total_memory == Total(solution, insts, "memory_GiB")
        total_cost == Total(solution, insts, "on_demand_hourly_price_usd")
    IN  IF Shortfall(solution, insts, required_vCPUs, required_memory_GiB)
        THEN FitZero
        ELSE IF required_vCPUs = 0 \/ required_memory_GiB = 0 \/ total_cost = 0
        THEN FitRaise
        ELSE [err |-> FALSE,
              num |-> required_vCPUs * required_memory_GiB,
              den |-> total_cost
                        * (total_vCPUs * required_memory_GiB
                           + total_memory * required_vCPUs
                           - required_vCPUs * required_memory_GiB)]

\* Stream.py: (1 / total_cost) * (total_vCPUs / required_vCPUs)
\*                             * (total_memory / required_memory_GiB)
Stream_fitness(solution, insts, required_vCPUs, required_memory_GiB) ==
    LET total_vCPUs == Total(solution, insts, "vCPUs")
        total_memory == Total(solution, insts, "memory_GiB")
        total_cost == Total(solution, insts, "on_demand_hourly_price_usd")
    IN  IF Shortfall(solution, insts, required_vCPUs, required_memory_GiB)
        THEN FitZero
        ELSE IF total_cost = 0 \/ required_vCPUs = 0 \/ required_memory_GiB = 0
        THEN FitRaise
        ELSE [err |-> FALSE,
              num |-> total_vCPUs * total_memory,
              den |-> total_cost * required_vCPUs * required_memory_GiB]

fitness(solution, insts, required_vCPUs, required_memory_GiB) ==
    IF variant = "Stream"
    THEN Stream_fitness(solution, insts, required_vCPUs, required_memory_GiB)
    ELSE Streaml_fitness(solution, insts, required_vCPUs, required_memory_GiB)

\* lambda x: fitness(x, instances, required_vCPUs, required_memory_GiB)
Key(x) == fitness(x, instances, avg_utilization.vCPUs, avg_utilization.memory_GiB)

(* ------------------------ population operators ------------------------ *)

\* every value generate_solution can return
generate_solution(insts) == [Ids(insts) -> InitCounts]

\* mask[key] stands for random.random() < 0.5
crossover(parent1, parent2, mask) ==
    [key \in DOMAIN parent1 |-> IF mask[key] THEN parent1[key] ELSE parent2[key]]

Max(a, b) == IF a >= b THEN a ELSE b
Min(a, b) == IF a <= b THEN a ELSE b

\* mutate without the max(0, ...)
mutateUnclamped(solution, fire, instance, step) ==
    IF fire
    THEN [solution EXCEPT ![instance] = solution[instance] + step]
    ELSE solution

\* fire stands for random.random() < mutation_rate, instance and step for
\* the two random.choice calls
mutate(solution, fire, instance, step) ==
    IF fire
    THEN [solution EXCEPT ![instance] = Max(0, solution[instance] + step)]
    ELSE solution

(* ------------------------- genetic_algorithm -------------------------- *)

RaisesIn(pop) == \E i \in 1..Len(pop) : Key(pop[i]).err

\* x placed behind every member whose key is not smaller: a stable
\* descending insertion
InsertDesc(s, x) ==
    LET k == Cardinality({ i \in 1..Len(s) : ~FitLess(Key(s[i]), Key(x)) })
    IN  SubSeq(s, 1, k) \o <<x>> \o SubSeq(s, k + 1, Len(s))

\* population.sort(key=..., reverse=True)
RECURSIVE SortDesc(_)
SortDesc(pop) ==
    IF Len(pop) <= 1 THEN pop
    ELSE InsertDesc(SortDesc(SubSeq(pop, 1, Len(pop) - 1)), pop[Len(pop)])

\* population[:1]
EliteOne(pop) == SubSeq(pop, 1, Min(1, Len(pop)))

\* no member carried over
EliteNone(pop) == SubSeq(pop, 1, 0)

\* population[:2]
Elite(pop) == SubSeq(pop, 1, Min(EliteCount, Len(pop)))

\* population[:10]
Parents(pop) == SubSeq(pop, 1, Min(ParentPool, Len(pop)))

\* max(population, key=...): the first member no other member beats
MaxByKey(pop) ==
    pop[CHOOSE i \in 1..Len(pop) :
          /\ \A j \in 1..Len(pop) : ~FitLess(Key(pop[i]), Key(pop[j]))
          /\ \A j \in 1..(i - 1) : FitLess(Key(pop[j]), Key(pop[i]))]

NoConfig == [k \in {} |-> 0]
None == [none |-> TRUE, config |-> NoConfig]
Some(c) == [none |-> FALSE, config |-> c]

NoResult ==
    [decision |-> "", optimal_config |-> None, cost |-> 0, savings |-> 0]

Init ==
    /\ variant \in {"Stream", "Streaml"}
    /\ \E s \in Scenarios :
         /\ instances = s[1]
         /\ avg_utilization = s[2]
    /\ \E id \in Ids(instances), n \in 1..2 : current_config = [k \in {id} |-> n]
    /\ pop_size \in PopSizes
    /\ population \in [1..pop_size -> generate_solution(instances)]
    /\ new_population = <<>>
    /\ generation = 0
    /\ best_config = NoConfig
    /\ optimal_config = None
    /\ result = NoResult
    /\ pc = "loop"

\* line 48 raising out of genetic_algorithm
SortRaises ==
    /\ pc = "loop"
    /\ generation < Generations
    /\ RaisesIn(population)
    /\ pc' = "raised"
    /\ UNCHANGED <<variant, instances, avg_utilization, current_config, pop_size,
                   population, new_population, generation, best_config,
                   optimal_config, result>>

\* population.sort(...); new_population = population[:2]
Rank ==
    /\ pc = "loop"
    /\ generation < Generations
    /\ ~RaisesIn(population)
    /\ population' = SortDesc(population)
    /\ new_population' = Elite(population')
    /\ pc' = "breed"
    /\ UNCHANGED <<variant, instances, avg_utilization, current_config, pop_size,
                   generation, best_config, optimal_config, result>>

\* the outcomes of mutate's random draws: no mutation, or one instance
\* and one step
Draws(ids) ==
    { [fire |-> FALSE, instance |-> CHOOSE k \in ids : TRUE, step |-> 1] }
      \cup { [fire |-> TRUE, instance |-> k, step |-> s] : k \in ids, s \in {-1, 1} }

\* one round of the while loop
Breed ==
    /\ pc = "breed"
    /\ Len(new_population) < pop_size
    /\ \E i1, i2 \in 1..Len(Parents(population)) :
       \E mask \in [Ids(instances) -> BOOLEAN] :
       \E d \in Draws(Ids(instances)) :
         LET p1 == Parents(population)[i1]
             p2 == Parents(population)[i2]
             child == mutate(crossover(p1, p2, mask), d.fire, d.instance, d.step)
         IN  /\ \A k \in DOMAIN child : child[k] <= CountCap
             /\ new_population' = Append(new_population, child)
    /\ UNCHANGED <<variant, instances, avg_utilization, current_config, pop_size,
                   population, generation, best_config, optimal_config,
                   result, pc>>

\* population = new_population, and the next round
Replace ==
    /\ pc = "breed"
    /\ Len(new_population) >= pop_size
    /\ population' = new_population
    /\ generation' = generation + 1
    /\ pc' = "loop"
    /\ UNCHANGED <<variant, instances, avg_utilization, current_config, pop_size,
                   new_population, best_config, optimal_config, result>>

\* the max() after the loop raising
SelectRaises ==
    /\ pc = "loop"
    /\ generation = Generations
    /\ RaisesIn(population)
    /\ pc' = "raised"
    /\ UNCHANGED <<variant, instances, avg_utilization, current_config, pop_size,
                   population, new_population, generation, best_config,
                   optimal_config, result>>

\* Streaml.py: return max(population, key=...)
Streaml_return(best) == Some(best)

\* Stream.py: None when best_config does not cover the requirement
Stream_return(best) ==
    IF Shortfall(best, instances, avg_utilization.vCPUs, avg_utilization.memory_GiB)
    THEN None
    ELSE Some(best)

Select ==
    /\ pc = "loop"
    /\ generation = Generations
    /\ ~RaisesIn(population)
    /\ best_config' = MaxByKey(population)
    /\ optimal_config' = IF variant = "Stream"
                         THEN Stream_return(best_config')
                         ELSE Streaml_return(best_config')
    /\ pc' = "analyze"
    /\ UNCHANGED <<variant, instances, avg_utilization, current_config, pop_size,
                   population, new_population, generation, result>>

(* -------------------------- scaling_analysis -------------------------- *)

calculate_cost(configuration, insts) ==
    Total(configuration, insts, "on_demand_hourly_price_usd")

Upgrade(current_cost) ==
    [decision |-> "Upgrade", optimal_config |-> None, cost |-> current_cost,
     savings |-> 0]

\* the strict variant: any positive saving is a Downgrade
StrictDecision(current_cost, optimal_cost) ==
    IF optimal_cost > current_cost THEN "Upgrade"
    ELSE IF current_cost - optimal_cost > 0 THEN "Downgrade"
    ELSE "Optimal"

\* Streaml.py, lines 84-89
Streaml_decision(current_cost, optimal_cost) ==
    IF optimal_cost > current_cost THEN "Upgrade"
    ELSE IF current_cost - optimal_cost > SavingsThreshold * PriceScale
    THEN "Downgrade"
    ELSE "Optimal"

\* Stream.py, lines 73-78
Stream_decision(current_cost, optimal_cost, utilization) ==
    IF optimal_cost > current_cost THEN "Upgrade"
    ELSE IF /\ current_cost - optimal_cost > SavingsThreshold * PriceScale
            /\ utilization.vCPUs < utilization_threshold
            /\ utilization.memory_GiB < utilization_threshold
    THEN "Downgrade"
    ELSE "Optimal"

\* {instance: count for instance, count in optimal_config.items() if count > 0}
Filtered(config) ==
    [instance \in { k \in DOMAIN config : config[k] > 0 } |-> config[instance]]

\* Streaml.py returns optimal_config itself
Unfiltered(config) == config

\* Streaml.py without lines 72-82
Streaml_scaling_analysis_unchecked(current, utilization, insts, optimal) ==
    LET current_cost == calculate_cost(current, insts)
        optimal_cost == calculate_cost(optimal.config, insts)
    IN  IF optimal.none \/ DOMAIN optimal.config = {}
        THEN Upgrade(current_cost)
        ELSE [decision |-> Streaml_decision(current_cost, optimal_cost),
              optimal_config |-> Some(Unfiltered(optimal.config)),
              cost |-> optimal_cost,
              savings |-> current_cost - optimal_cost]

Streaml_scaling_analysis(current, utilization, insts, optimal) ==
    LET current_cost == calculate_cost(current, insts)
        optimal_cost == calculate_cost(optimal.config, insts)
    IN  IF optimal.none \/ DOMAIN optimal.config = {}
        THEN Upgrade(current_cost)
        ELSE IF Shortfall(optimal.config, insts, utilization.vCPUs,
                          utilization.memory_GiB)
        THEN Upgrade(current_cost)
        ELSE [decision |-> Streaml_decision(current_cost, optimal_cost),
              optimal_config |-> Some(Unfiltered(optimal.config)),
              cost |-> optimal_cost,
              savings |-> current_cost - optimal_cost]

Stream_scaling_analysis(current, utilization, insts, optimal) ==
    LET current_cost == calculate_cost(current, insts)
        optimal_cost == calculate_cost(optimal.config, insts)
    IN  IF optimal.none \/ DOMAIN optimal.config = {}
        THEN Upgrade(current_cost)
        ELSE [decision |-> Stream_decision(current_cost, optimal_cost, utilization),
              optimal_config |-> Some(Filtered(optimal.config)),
              cost |-> optimal_cost,
              savings |-> current_cost - optimal_cost]

\* the rest of scaling_analysis, once genetic_algorithm has returned
Analyze ==
    /\ pc = "analyze"
    /\ result' = IF variant = "Stream"
                 THEN Stream_scaling_analysis(current_config, avg_utilization,
                                              instances, optimal_config)
                 ELSE Streaml_scaling_analysis(current_config, avg_utilization,
                                               instances, optimal_config)
    /\ pc' = "done"
    /\ UNCHANGED <<variant, instances, avg_utilization, current_config, pop_size,
                   population, new_population, generation, best_config,
                   optimal_config>>

Next ==
    \/ SortRaises
    \/ Rank
    \/ Breed
    \/ Replace
    \/ SelectRaises
    \/ Select
    \/ Analyze

Spec == Init /\ [][Next]_vars

(* ------------------------------ claims --------------------------------- *)

required_vCPUs == avg_utilization.vCPUs
required_memory_GiB == avg_utilization.memory_GiB

Covers(c) ==
    /\ Total(c, instances, "vCPUs") >= required_vCPUs
    /\ Total(c, instances, "memory_GiB") >= required_memory_GiB

\* every configuration with counts up to the cap
ConfigSpace == [Ids(instances) -> 0..CountCap]

Returned == pc = "done" /\ ~result.optimal_config.none

current_cost == calculate_cost(current_config, instances)

\* C1: when the configuration the optimizer ends with does not cover the
\* requirement, scaling_analysis returns "Upgrade", no configuration and
\* savings 0; a configuration it does return covers the requirement.
C1_InfeasibleIsUpgrade ==
    /\ pc = "done" /\ ~Covers(best_config)
         => /\ result.decision = "Upgrade"
            /\ result.optimal_config.none
            /\ result.savings = 0
    /\ Returned => Covers(result.optimal_config.config)

C1_Witness ==
    /\ pc = "done"
    /\ variant = "Streaml"
    /\ ~Covers(best_config)
    /\ required_vCPUs > 0

\* the decision policy in the words of C2
PolicyLabel(cur, opt) ==
    IF opt > cur THEN "Upgrade"
    ELSE IF cur - opt > SavingsThreshold * PriceScale THEN "Downgrade"
    ELSE "Optimal"

\* C2: with a feasible optimum, the decision label is the policy applied to
\* current_cost and optimal_cost, whatever the requirement.
C2_LabelFromCostsOnly ==
    Returned => result.decision = PolicyLabel(current_cost, result.cost)

\* current cost 1.00 and a feasible optimum of cost 0.50
C3_Witness ==
    /\ Returned
    /\ current_cost = PriceScale
    /\ 2 * result.cost = PriceScale

\* C3 as stated: current cost 1.00 and optimum 0.50 give "Downgrade" with
\* savings 0.50; equal costs give "Optimal" with savings 0.
C3_Original ==
    /\ C3_Witness
         => result.decision = "Downgrade" /\ 2 * result.savings = PriceScale
    /\ Returned /\ result.cost = current_cost
         => result.decision = "Optimal" /\ result.savings = 0

\* C3 amended: current cost 1.00 and optimum 0.50 give "Optimal" with
\* savings 0.50, since 0.50 does not exceed the threshold of 5; equal costs
\* give "Optimal" with savings 0.
C3_Amended ==
    /\ C3_Witness
         => result.decision = "Optimal" /\ 2 * result.savings = PriceScale
    /\ Returned /\ result.cost = current_cost
         => result.decision = "Optimal" /\ result.savings = 0

\* C4: a positive fitness implies the aggregates cover the requirement, and
\* a configuration short in either aggregate has fitness exactly 0, without
\* raising.
C4_FeasibilityMonotone ==
    \A c \in ConfigSpace \cup { population[i] : i \in 1..Len(population) } :
        /\ FitPositive(Key(c)) => Covers(c)
        /\ ~Covers(c) => Key(c) = FitZero

C4_Witness ==
    /\ pc = "breed"
    /\ required_vCPUs > 0
    /\ \E i, j \in 1..Len(population) :
         /\ FitPositive(Key(population[i]))
         /\ ~Covers(population[j])

\* C5: genetic_algorithm never raises, a requirement of 0 vCPUs included.
C5_NeverRaises == pc # "raised"

\* C6: mutate changes at most one count, by exactly 1 up or down, takes no
\* count below 0 and keeps the key set and every other count.
C6_MutationBounded ==
    \A c \in ConfigSpace : \A d \in Draws(Ids(instances)) :
        LET r == mutate(c, d.fire, d.instance, d.step)
            changed == { k \in DOMAIN c : r[k] # c[k] }
        IN  /\ DOMAIN r = DOMAIN c
            /\ Cardinality(changed) <= 1
            /\ \A k \in changed : r[k] - c[k] \in {-1, 1}
            /\ \A k \in DOMAIN r : r[k] >= 0

\* a child holding a count no initial configuration has: a mutation acted
C6_Witness ==
    /\ pc = "breed"
    /\ generation = 0
    /\ Len(new_population) > EliteCount
    /\ \E k \in Ids(instances) :
         new_population[Len(new_population)][k] \notin InitCounts

\* C7: a returned optimal configuration holds no count of 0, and keeps every
\* positive count of the optimizer's configuration.
C7_NoZeroCounts ==
    Returned =>
        LET shown == result.optimal_config.config
        IN  /\ \A k \in DOMAIN shown : shown[k] > 0
            /\ \A k \in DOMAIN best_config :
                 best_config[k] > 0 => k \in DOMAIN shown /\ shown[k] = best_config[k]

\* C8: of two ranked feasible configurations of equal cost under a positive
\* requirement, the one with the larger surplus has no higher fitness.
C8_SurplusNeverRaisesScore ==
    pc = "breed" /\ required_vCPUs > 0 /\ required_memory_GiB > 0 =>
        \A i, j \in 1..Len(population) :
            LET a == population[i]
                b == population[j]
            IN  /\ Covers(a) /\ Covers(b)
                /\ calculate_cost(a, instances) = calculate_cost(b, instances)
                /\ Total(a, instances, "vCPUs") >= Total(b, instances, "vCPUs")
                /\ Total(a, instances, "memory_GiB") >= Total(b, instances, "memory_GiB")
                => ~FitLess(Key(b), Key(a))

\* child is crossover then mutate of two of the top-ranked members
ChildOf(child, pop) ==
    \E i1, i2 \in 1..Len(Parents(pop)) :
    \E mask \in [Ids(instances) -> BOOLEAN] :
    \E d \in Draws(Ids(instances)) :
        child = mutate(crossover(Parents(pop)[i1], Parents(pop)[i2], mask),
                       d.fire, d.instance, d.step)

BestKey(pop) == Key(MaxByKey(pop))

\* C10: the best fitness of the population never decreases, the selected
\* configuration is at least as fit as every member of the last population,
\* and a population with a feasible member keeps one and selects one.
C10_BestNeverDecreases ==
    [][ /\ population' # population
             /\ ~RaisesIn(population) /\ ~RaisesIn(population') =>
               /\ ~FitLess(BestKey(population'), BestKey(population))
               /\ (\E i \in 1..Len(population) : Covers(population[i]))
                    => \E i \in 1..Len(population') : Covers(population'[i])
        /\ pc = "loop" /\ pc' = "analyze" =>
               /\ \A i \in 1..Len(population) :
                    ~FitLess(Key(best_config'), Key(population[i]))
               /\ (\E i \in 1..Len(population) : Covers(population[i]))
                    => Covers(best_config')
      ]_vars

\* a feasible selection out of a last population that also holds a worse
\* child
C10_Witness ==
    /\ pc = "done"
    /\ pop_size > EliteCount
    /\ Covers(best_config)
    /\ FitLess(Key(population[pop_size]), Key(best_config))

====
